---- MODULE Spec2Model ----
(***************************************************************************)
(* ExpenseCard: a presentational React component that renders one expense  *)
(* record and reports a delete intent to its caller.  Two source variants  *)
(* exist: the stylesheet variant (components/ExpenseCard/ExpenseCard.tsx)  *)
(* and the utility-class variant (the second source file).                 *)
(*                                                                         *)
(* Representation choices:                                                 *)
(*   - a text is a TLA+ string; formatted texts are built character by     *)
(*     character and joined, so their shape is something to be checked;    *)
(*   - an amount (a JS number) is a record [nan, neg, abs]: the sign bit   *)
(*     and the magnitude in thousandths of a dollar, so that negative zero *)
(*     is a value of its own, as it is for a JS number;                    *)
(*   - a date prop (a JS string) is a record [form, y, m, d, h]: form is   *)
(*     "iso-date" (YYYY-MM-DD), "iso-local" (YYYY-MM-DDTHH:00, no offset)  *)
(*     or "invalid" (a string Date cannot parse);                          *)
(*   - an optional prop is a set: {} when omitted, {v} when supplied;      *)
(*   - a time zone is its offset from UTC in minutes, east positive.       *)
(***************************************************************************)
EXTENDS Integers, Sequences, FiniteSets, TLC

\* variant, timeZone: which source variant is built, and the platform's zone.
\* props, mounted:     the props of the latest render, and what is on screen.
\* deleteClicks:       clicks made on the delete control.
\* calls:              the invocations of onDelete, oldest first.
\* ancestorClicks:     runs of a click handler enclosing the card.
\* uncaught:           exceptions that left handleDelete.
VARIABLES variant, timeZone, props, mounted, deleteClicks, calls,
          ancestorClicks, uncaught

vars == <<variant, timeZone, props, mounted, deleteClicks, calls,
          ancestorClicks, uncaught>>

\* ---------------------------------------------------------------- bounds

MaxId == 2
MaxClicks == 2

\* ----------------------------------------------------------- text helpers

Digits == <<"0", "1", "2", "3", "4", "5", "6", "7", "8", "9">>

DigitChar(d) == Digits[d + 1]

RECURSIVE NatChars(_)
NatChars(n) ==
  IF n < 10 THEN <<DigitChar(n)>>
            ELSE NatChars(n \div 10) \o <<DigitChar(n % 10)>>

RECURSIVE Join(_)
Join(chars) ==
  IF chars = <<>> THEN "" ELSE chars[1] \o Join(Tail(chars))

\* ------------------------------------------------- Intl.NumberFormat, USD

\* Grouping of the integer part in the en-US locale: groups of three digits
\* separated by commas.
RECURSIVE GroupedChars(_)
GroupedChars(n) ==
  IF n < 1000
    THEN NatChars(n)
    ELSE GroupedChars(n \div 1000)
           \o <<",", DigitChar((n % 1000) \div 100),
                     DigitChar((n % 100) \div 10), DigitChar(n % 10)>>

\* Rounding to the currency's two fraction digits, ties away from zero
\* (the default roundingMode, halfExpand), on the magnitude.
RoundToCents(absMills) == (absMills + 5) \div 10

\* '$' + amount.toFixed(2): no grouping, the sign after the symbol.
FormatCurrencyToFixed(amount) ==
  IF amount.nan
    THEN <<"$", "N", "a", "N">>
    ELSE LET cents == RoundToCents(amount.abs)
         IN <<"$">> \o (IF amount.neg THEN <<"-">> ELSE <<>>)
              \o NatChars(cents \div 100)
              \o <<".", DigitChar((cents % 100) \div 10), DigitChar(cents % 10)>>

\* new Intl.NumberFormat('en-US', {style:'currency', currency:'USD'}).format
\* as a sequence of characters.  The sign is the sign bit of the number
\* itself (signDisplay "auto"), so a negative number that rounds to zero,
\* and negative zero, keep the minus sign.
FormatCurrencyChars(amount) ==
  IF amount.nan
    THEN <<"$", "N", "a", "N">>
    ELSE LET cents == RoundToCents(amount.abs)
         IN (IF amount.neg THEN <<"-">> ELSE <<>>)
              \o <<"$">> \o GroupedChars(cents \div 100)
              \o <<".", DigitChar((cents % 100) \div 10), DigitChar(cents % 10)>>

formattedAmountOf(amount) == Join(FormatCurrencyChars(amount))

\* --------------------------------------- Date parsing and toLocaleDateString

MonthShort == <<"Jan", "Feb", "Mar", "Apr", "May", "Jun",
                "Jul", "Aug", "Sep", "Oct", "Nov", "Dec">>

\* Days since 1970-01-01 of a proleptic Gregorian calendar date.
DaysFromCivil(y, m, d) ==
  LET yy == IF m <= 2 THEN y - 1 ELSE y
      era == yy \div 400
      yoe == yy - era * 400
      mp == (m + 9) % 12
      doy == (153 * mp + 2) \div 5 + d - 1
      doe == yoe * 365 + yoe \div 4 - yoe \div 100 + doy
  IN era * 146097 + doe - 719468

\* The calendar date of a day number (inverse of DaysFromCivil).
CivilFromDays(days) ==
  LET z == days + 719468
      era == z \div 146097
      doe == z - era * 146097
      yoe == (doe - doe \div 1460 + doe \div 36524 - doe \div 146096) \div 365
      doy == doe - (365 * yoe + yoe \div 4 - yoe \div 100)
      mp == (5 * doy + 2) \div 153
      d == doy - (153 * mp + 2) \div 5 + 1
      m == IF mp < 10 THEN mp + 3 ELSE mp - 9
      y == yoe + era * 400 + (IF m <= 2 THEN 1 ELSE 0)
  IN [y |-> y, m |-> m, d |-> d]

\* new Date(date): the time value in minutes since the epoch (UTC), or NaN.
\* A date-only ISO string is read as UTC midnight; a date-time string with
\* no offset is read as local time; anything unparseable gives NaN.
DateParse(date, tz) ==
  CASE date.form = "iso-date" ->
         [nan |-> FALSE, minutes |-> DaysFromCivil(date.y, date.m, date.d) * 1440]
    [] date.form = "iso-local" ->
         [nan |-> FALSE,
          minutes |-> DaysFromCivil(date.y, date.m, date.d) * 1440
                        + date.h * 60 - tz]
    [] OTHER -> [nan |-> TRUE, minutes |-> 0]

InvalidDateText == "Invalid Date"
RangeError == "#RangeError"

\* Intl.DateTimeFormat.prototype.format: the same text for a valid time
\* value, a RangeError for NaN.
formatRaisesOnInvalid(t, tz) ==
  IF t.nan
    THEN RangeError
    ELSE LET c == CivilFromDays((t.minutes + tz) \div 1440)
         IN Join(<<MonthShort[c.m], " ">> \o NatChars(c.d)
                   \o <<",", " ">> \o NatChars(c.y))

\* Date.prototype.toLocaleDateString('en-US', {month:'short', day:'numeric',
\* year:'numeric'}): the calendar date of the time value in the platform's
\* time zone; "Invalid Date" for a NaN time value, without raising.
toLocaleDateString(t, tz) ==
  IF t.nan
    THEN InvalidDateText
    ELSE LET c == CivilFromDays((t.minutes + tz) \div 1440)
         IN Join(<<MonthShort[c.m], " ">> \o NatChars(c.d)
                   \o <<",", " ">> \o NatChars(c.y))

formattedDateOf(date, tz) == toLocaleDateString(DateParse(date, tz), tz)

\* ------------------------------------------------------------ the props

Categories == {"Food", "Transportation", "Entertainment", "Other"}
Callbacks == {"cbA", "cbB"}

\* A default parameter value: the default applies when the prop is omitted.
Default(opt, d) == IF opt = {} THEN d ELSE CHOOSE x \in opt : TRUE

highlightedOf(p) == Default(p.highlighted, FALSE)

showCategoryDefaultFalse(p) == Default(p.showCategory, FALSE)
showCategoryOf(p) == Default(p.showCategory, TRUE)

\* ------------------------------------------------------- the rendered tree

\* A rendered card is [tag, className, header, body]; header and body are
\* the children of the two <div>s, each child a leaf [tag, className, text,
\* onClick].  className is the set of class tokens; onClick is <<>> or
\* <<closure>>, the closure being what handleDelete captured.
Leaf(tag, className, text) ==
  [tag |-> tag, className |-> className, text |-> text, onClick |-> <<>>]

\* A JSX child that is plain text.
TextNode(text) == Leaf("#text", {}, text)

NotMounted == [tag |-> "#none", className |-> {}, header |-> <<>>, body |-> <<>>]
RenderError == [tag |-> "#error", className |-> {}, header |-> <<>>, body |-> <<>>]

CssVariant == "stylesheet"
TwVariant == "utility"
Variants == {CssVariant, TwVariant}

CssBaseClasses == {"expense-card"}
CssHighlightClasses == {"expense-card--highlighted"}
TwBaseClasses == {"relative", "bg-white", "rounded-lg", "p-4", "mb-3", "shadow-md",
                  "transition-all", "duration-200", "border", "hover:shadow-lg"}
TwHighlightClasses == {"border-orange-500", "bg-orange-50"}
TwNormalClasses == {"border-blue-500"}

rootClassNameSwapped(v, highlighted) ==
  IF v = CssVariant
    THEN CssBaseClasses \cup (IF highlighted THEN {} ELSE CssHighlightClasses)
    ELSE TwBaseClasses \cup (IF highlighted THEN TwNormalClasses ELSE TwHighlightClasses)

\* The className template of the <article>.
rootClassName(v, highlighted) ==
  IF v = CssVariant
    THEN CssBaseClasses \cup (IF highlighted THEN CssHighlightClasses ELSE {})
    ELSE TwBaseClasses \cup (IF highlighted THEN TwHighlightClasses ELSE TwNormalClasses)

BadgeClasses(v) ==
  IF v = CssVariant
    THEN {"expense-category"}
    ELSE {"inline-block", "bg-blue-500", "text-white", "px-2", "py-1", "rounded",
          "text-xs", "font-semibold", "uppercase"}

\* {showCategory && <span ...>{category}</span>}
categoryBadge(v, showCategory, category) ==
  IF showCategory THEN <<Leaf("span", BadgeClasses(v), category)>> ELSE <<>>

DeleteClasses(v) ==
  IF v = CssVariant
    THEN {"expense-delete"}
    ELSE {"absolute", "top-2", "right-2", "bg-red-500", "hover:bg-red-600",
          "text-white", "border-0", "rounded-full", "w-6", "h-6", "cursor-pointer",
          "text-base", "flex", "items-center", "justify-center",
          "transition-colors", "focus:outline-none", "focus:ring-2",
          "focus:ring-red-400"}

\* The glyph of the delete control: the multiplication sign in the stylesheet
\* variant, the letter x in the utility-class variant.
DeleteGlyph(v) == IF v = CssVariant THEN "U+00D7" ELSE "x"

deleteButtonAlways(v, onDelete, closure) ==
  <<[tag |-> "button", className |-> DeleteClasses(v), text |-> DeleteGlyph(v),
     onClick |-> <<closure>>]>>

\* {onDelete && <button onClick={handleDelete} ...>glyph</button>}
deleteButton(v, onDelete, closure) ==
  IF onDelete # {}
    THEN <<[tag |-> "button", className |-> DeleteClasses(v), text |-> DeleteGlyph(v),
            onClick |-> <<closure>>]>>
    ELSE <<>>

\* What handleDelete closes over in one render.
Closure(p) == [id |-> p.id, onDelete |-> p.onDelete]

\* The stylesheet variant.  The two "// UPDATED" lines inside the <div>s are
\* JSX children, so they are text of the output.
ExpenseCardCss(tz, p) ==
  LET formattedAmount == formattedAmountOf(p.amount)
      formattedDate == formattedDateOf(p.date, tz)
  IN IF formattedDate = RangeError
       THEN RenderError
       ELSE [tag |-> "article",
             className |-> rootClassName(CssVariant, highlightedOf(p)),
             header |-> <<TextNode("// UPDATED")>>
                          \o categoryBadge(CssVariant, showCategoryOf(p), p.category)
                          \o <<Leaf("time", {"expense-date"}, formattedDate)>>,
             body |-> <<Leaf("h3", {"expense-description"}, p.description),
                        Leaf("p", {"expense-amount"}, formattedAmount),
                        TextNode("// UPDATED")>>
                        \o deleteButton(CssVariant, p.onDelete, Closure(p))]

\* The utility-class variant.
ExpenseCardTw(tz, p) ==
  LET formattedAmount == formattedAmountOf(p.amount)
      formattedDate == formattedDateOf(p.date, tz)
  IN IF formattedDate = RangeError
       THEN RenderError
       ELSE [tag |-> "article",
             className |-> rootClassName(TwVariant, highlightedOf(p)),
             header |-> categoryBadge(TwVariant, showCategoryOf(p), p.category)
                          \o <<Leaf("time", {"text-gray-500", "text-sm"}, formattedDate)>>,
             body |-> <<Leaf("h3", {"mb-2", "text-base", "font-medium", "text-gray-900"},
                             p.description),
                        Leaf("p", {"text-green-600", "text-lg", "font-bold", "m-0"},
                             formattedAmount)>>
                        \o deleteButton(TwVariant, p.onDelete, Closure(p))]

ExpenseCard(v, tz, p) ==
  IF v = CssVariant THEN ExpenseCardCss(tz, p) ELSE ExpenseCardTw(tz, p)

\* ------------------------------------------------------ queries on a tree

Children(tree) == tree.header \o tree.body

RECURSIVE Texts(_)
Texts(nodes) ==
  IF nodes = <<>> THEN <<>> ELSE <<nodes[1].text>> \o Texts(Tail(nodes))

\* Every text of the card, in document order.
TextContent(tree) == Texts(Children(tree))

RECURSIVE WithTag(_, _)
WithTag(nodes, tag) ==
  IF nodes = <<>> THEN <<>>
  ELSE (IF nodes[1].tag = tag THEN <<nodes[1]>> ELSE <<>>) \o WithTag(Tail(nodes), tag)

Badges(tree) == WithTag(Children(tree), "span")
DeleteControls(tree) == WithTag(Children(tree), "button")
DateElements(tree) == WithTag(Children(tree), "time")
AmountElements(tree) == WithTag(Children(tree), "p")

\* --------------------------------------------------------- click handling

\* A synthetic click event while it is dispatched: whether propagation was
\* stopped, the onDelete invocations made so far, and whether the handler
\* was left by an exception.
NewEvent == [propagationStopped |-> FALSE, invoked |-> <<>>, threw |-> FALSE]

\* e.stopPropagation()
stopPropagation(e) == [e EXCEPT !.propagationStopped = TRUE]

\* onDelete(id): the caller's callback runs with the captured id; throws
\* says whether the callback raises.
callOnDelete(e, closure, throws) ==
  [e EXCEPT !.invoked = Append(@, [cb |-> CHOOSE c \in closure.onDelete : TRUE,
                                   id |-> closure.id]),
            !.threw = throws]

handleDeleteCallsTwice(e, closure, throws) ==
  LET e1 == stopPropagation(e)
      e2 == IF closure.onDelete # {} THEN callOnDelete(e1, closure, throws) ELSE e1
  IN IF closure.onDelete # {} /\ ~e2.threw
       THEN callOnDelete(e2, closure, throws) ELSE e2

handleDeleteCallFirst(e, closure, throws) ==
  LET e1 == IF closure.onDelete # {} THEN callOnDelete(e, closure, throws) ELSE e
  IN IF e1.threw THEN e1 ELSE stopPropagation(e1)

\* handleDelete: stop propagation, then call onDelete(id) when it was given.
handleDelete(e, closure, throws) ==
  LET e1 == stopPropagation(e)
  IN IF closure.onDelete # {} THEN callOnDelete(e1, closure, throws) ELSE e1

CommitKeepsHandlers(old, new) ==
  IF old.tag = "article" /\ new.tag = "article"
       /\ Len(old.body) = Len(new.body)
    THEN [new EXCEPT !.body =
            [i \in 1..Len(new.body) |->
               [new.body[i] EXCEPT !.onClick =
                  IF new.body[i].tag = "button" /\ old.body[i].tag = "button"
                    THEN old.body[i].onClick ELSE @]]]
    ELSE new

\* What is on screen after a render: the new output, with the handlers of
\* that render bound to its elements.
Commit(old, new) == new

\* ------------------------------------------------------------- the inputs

NaN == [nan |-> TRUE, neg |-> FALSE, abs |-> 0]
Finite(mills) ==
  [nan |-> FALSE, neg |-> mills < 0, abs |-> IF mills < 0 THEN -mills ELSE mills]
NegativeZero == [nan |-> FALSE, neg |-> TRUE, abs |-> 0]

\* Amounts in thousandths of a dollar: zero, the spec's examples, values on
\* both sides of a rounding tie, a carry into a new group, negative values
\* that round to zero, seven- and ten-digit values.
SampleMills == {0, -5000, 1234500, 4, 5, -4, 100, 999995, 12345670, -1234567895}
Amounts == {Finite(n) : n \in SampleMills} \cup {NegativeZero, NaN}

IsoDate(y, m, d) == [form |-> "iso-date", y |-> y, m |-> m, d |-> d, h |-> 0]
IsoLocal(y, m, d, h) == [form |-> "iso-local", y |-> y, m |-> m, d |-> d, h |-> h]
Unparseable == [form |-> "invalid", y |-> 0, m |-> 0, d |-> 0, h |-> 0]

\* The spec's examples, the first day of a year, the day after a leap day,
\* the last day of a year, and date-time strings early and late in a day.
Dates == {IsoDate(2024, 3, 5), IsoDate(2023, 12, 1), IsoDate(2024, 1, 1),
          IsoDate(2024, 3, 1), IsoDate(2023, 12, 31),
          IsoLocal(2024, 3, 5, 0), IsoLocal(2023, 12, 31, 23), Unparseable}

\* UTC-5, UTC and UTC+9, in minutes.
TimeZones == {-300, 0, 540}

Descriptions == {"Lunch at Joe's Pizza", "Bus pass"}
Ids == 1..MaxId
Flags == {{}, {TRUE}, {FALSE}}

RenderProps ==
  [id : Ids, description : Descriptions, amount : Amounts, category : Categories,
   date : Dates, highlighted : Flags, showCategory : Flags,
   onDelete : {{}, {"cbA"}}]

ClickProps ==
  [id : Ids, description : {"Bus pass"}, amount : {Finite(1234500)},
   category : {"Transportation"}, date : {IsoLocal(2024, 3, 5, 0)},
   highlighted : {{}}, showCategory : {{}},
   onDelete : {{}} \cup {{c} : c \in Callbacks}]

\* ------------------------------------------------------------ the machine

NoHistory ==
  /\ deleteClicks = 0
  /\ calls = <<>>
  /\ ancestorClicks = 0
  /\ uncaught = 0

Init ==
  /\ variant \in Variants
  /\ timeZone \in TimeZones
  /\ props \in ClickProps
  /\ mounted = NotMounted
  /\ NoHistory

InitRender ==
  /\ variant \in Variants
  /\ timeZone \in TimeZones
  /\ props \in RenderProps
  /\ mounted = NotMounted
  /\ NoHistory

\* The first render of the card with the props it was given.
Mount ==
  /\ mounted = NotMounted
  /\ mounted' = Commit(mounted, ExpenseCard(variant, timeZone, props))
  /\ UNCHANGED <<variant, timeZone, props, deleteClicks, calls,
                 ancestorClicks, uncaught>>

\* The caller renders the card again, with any props.
Rerender(p) ==
  /\ mounted.tag = "article"
  /\ props' = p
  /\ mounted' = Commit(mounted, ExpenseCard(variant, timeZone, p))
  /\ UNCHANGED <<variant, timeZone, deleteClicks, calls,
                 ancestorClicks, uncaught>>

\* A click on the delete control.  The event is dispatched to the control's
\* handler and then bubbles: an enclosing click handler runs unless
\* propagation was stopped, also when the control's handler raised.
ClickDelete(throws) ==
  /\ mounted.tag = "article"
  /\ DeleteControls(mounted) # <<>>
  /\ deleteClicks < MaxClicks
  /\ LET button == DeleteControls(mounted)[1]
         e == handleDelete(NewEvent, button.onClick[1], throws)
     IN /\ deleteClicks' = deleteClicks + 1
        /\ calls' = calls \o e.invoked
        /\ ancestorClicks' = IF e.propagationStopped THEN ancestorClicks
                             ELSE ancestorClicks + 1
        /\ uncaught' = uncaught + (IF e.threw THEN 1 ELSE 0)
  /\ UNCHANGED <<variant, timeZone, props, mounted>>

\* A click on the card outside the delete control: the card has no handler
\* of its own, so only the enclosing click handler runs.
ClickCard ==
  /\ mounted.tag = "article"
  /\ ancestorClicks < MaxClicks
  /\ ancestorClicks' = ancestorClicks + 1
  /\ UNCHANGED <<variant, timeZone, props, mounted, deleteClicks, calls,
                 uncaught>>

Next ==
  \/ Mount
  \/ \E p \in ClickProps : Rerender(p)
  \/ \E throws \in BOOLEAN : ClickDelete(throws)
  \/ ClickCard

Spec == Init /\ [][Next]_vars

NextRender == Mount

SpecRender == InitRender /\ [][NextRender]_vars

\* ----------------------------------------------------------- the claims

\* The callback and id that the latest render was given.
LatestCall == [cb |-> CHOOSE c \in props.onDelete : TRUE, id |-> props.id]

\* C1: every click on the delete control of a card rendered with an
\* onDelete callback and id i adds exactly one invocation of onDelete, and
\* the argument of that invocation is i.
C1_ClickInvokesOnceWithId ==
  [][deleteClicks' # deleteClicks =>
       /\ props.onDelete # {}
       /\ Len(calls') = Len(calls) + 1
       /\ calls'[Len(calls')].id = props.id]_vars

C1_Witness ==
  /\ deleteClicks >= 2
  /\ Len(calls) = deleteClicks
  /\ calls[1].id = 1
  /\ calls[2].id = 2

\* C2: a click on the delete control never runs the click handler of an
\* ancestor of the card, whatever onDelete does, also when it raises.
C2_DeleteClickNotPropagated ==
  [][deleteClicks' # deleteClicks => ancestorClicks' = ancestorClicks]_vars

C2_Witness ==
  /\ deleteClicks >= 1
  /\ uncaught >= 1
  /\ ancestorClicks = 0

\* C3: the delete control is in the rendered output if and only if an
\* onDelete callback was supplied, whatever the other props are.
C3_DeleteControlIffOnDelete ==
  mounted # NotMounted =>
    /\ mounted.tag = "article"
    /\ Len(DeleteControls(mounted)) = (IF props.onDelete # {} THEN 1 ELSE 0)

C3_Witness ==
  /\ mounted.tag = "article"
  /\ props.onDelete = {}
  /\ DeleteControls(mounted) = <<>>
  /\ props.highlighted = {TRUE}
  /\ props.showCategory = {FALSE}

\* C4: with showCategory = false the output has no category badge; with
\* showCategory = true or omitted it has exactly one, whose text is the
\* category value passed in.
C4_BadgeFollowsShowCategory ==
  mounted # NotMounted =>
    IF props.showCategory = {FALSE}
      THEN Badges(mounted) = <<>>
      ELSE /\ Len(Badges(mounted)) = 1
           /\ Badges(mounted)[1].text = props.category

C4_Witness ==
  /\ mounted.tag = "article"
  /\ props.showCategory = {}
  /\ props.category = "Entertainment"
  /\ Len(Badges(mounted)) = 1

\* C5: highlighted = true puts the alternate style classes on the root
\* element; highlighted = false or omitted leaves none of them there; and
\* the root's classes are one of the two class lists of the variant, chosen
\* by nothing but the flag.
C5_HighlightSelectsVariant ==
  mounted # NotMounted =>
    LET alternate == IF variant = CssVariant THEN CssHighlightClasses
                                             ELSE TwHighlightClasses
        base == IF variant = CssVariant THEN CssBaseClasses ELSE TwBaseClasses
    IN /\ base \subseteq mounted.className
       /\ IF props.highlighted = {TRUE}
            THEN alternate \subseteq mounted.className
            ELSE /\ mounted.className \cap alternate = {}
                 /\ mounted.className \subseteq
                      base \cup (IF variant = CssVariant THEN {} ELSE TwNormalClasses)

C5_Witness ==
  /\ mounted.tag = "article"
  /\ props.highlighted = {}
  /\ variant = TwVariant
  /\ "border-blue-500" \in mounted.className

DigitValue(c) == CHOOSE d \in 0..9 : Digits[d + 1] = c
IsDigit(c) == \E d \in 0..9 : Digits[d + 1] = c

RECURSIVE DigitsValue(_)
DigitsValue(chars) ==
  IF chars = <<>> THEN 0
  ELSE LET n == Len(chars)
           rest == DigitsValue(SubSeq(chars, 1, n - 1))
       IN IF chars[n] = "," \/ chars[n] = "." THEN rest
          ELSE rest * 10 + DigitValue(chars[n])

\* The US-dollar currency form of an amount: a leading minus sign when the
\* value is negative (and only when its sign is negative), "$", the integer
\* part in groups of three separated by commas, ".", two digits; and the
\* number written is the magnitude to the nearest cent.
IsCurrencyForm(chars, amount) ==
  LET minus == chars # <<>> /\ chars[1] = "-"
      body == IF chars # <<>> /\ chars[1] = "-" THEN Tail(chars) ELSE chars
      n == Len(body)
      int == SubSeq(body, 2, n - 3)
      L == Len(int)
      cents == DigitsValue(SubSeq(body, 2, n))
      abs == amount.abs
  IN /\ (amount.neg /\ amount.abs > 0) => minus
     /\ minus => amount.neg
     /\ n >= 5
     /\ body[1] = "$"
     /\ body[n - 2] = "."
     /\ IsDigit(body[n - 1]) /\ IsDigit(body[n])
     /\ L >= 1
     /\ \A i \in 1..L :
          IF (L - i) % 4 = 3 THEN int[i] = "," ELSE IsDigit(int[i])
     /\ int[1] # ","
     /\ (L > 1 => int[1] # "0")
     /\ cents * 10 - abs <= 5
     /\ abs - cents * 10 <= 5

\* C6: for every valid amount the rendered amount text is the US-dollar
\* currency form of the amount (0 -> $0.00, -5 -> -$5.00,
\* 1234.5 -> $1,234.50).
C6_AmountIsCurrencyForm ==
  (mounted # NotMounted /\ ~props.amount.nan) =>
    LET chars == FormatCurrencyChars(props.amount)
    IN /\ Len(AmountElements(mounted)) = 1
       /\ AmountElements(mounted)[1].text = Join(chars)
       /\ IsCurrencyForm(chars, props.amount)
       /\ (props.amount = Finite(0) => AmountElements(mounted)[1].text = "$0.00")
       /\ (props.amount = Finite(-5000)
             => AmountElements(mounted)[1].text = "-$5.00")
       /\ (props.amount = Finite(1234500)
             => AmountElements(mounted)[1].text = "$1,234.50")

C6_Witness ==
  /\ mounted.tag = "article"
  /\ props.amount = Finite(-1234567895)
  /\ AmountElements(mounted)[1].text = "-$1,234,567.90"

\* Mon D, YYYY of a calendar date.
ShortDateText(y, m, d) ==
  Join(<<MonthShort[m], " ">> \o NatChars(d) \o <<",", " ">> \o NatChars(y))

\* C7: for every valid date string the rendered date text is the short
\* month name, the day and the year of the calendar date written in the
\* string, whatever the platform's time zone.
C7_DateAsWritten ==
  (mounted # NotMounted /\ props.date.form # "invalid") =>
    /\ Len(DateElements(mounted)) = 1
    /\ DateElements(mounted)[1].text
         = ShortDateText(props.date.y, props.date.m, props.date.d)

WithoutDate(tree) ==
  [tree EXCEPT !.header = SelectSeq(tree.header, LAMBDA n : n.tag # "time")]

\* C8: rendering never raises; with a date string that cannot be parsed the
\* date element shows the platform's invalid-date text and everything else
\* is rendered as it is with a valid date.
C8_InvalidDateDegradesDateOnly ==
  mounted # NotMounted =>
    /\ mounted.tag = "article"
    /\ props.date.form = "invalid" =>
         /\ Len(DateElements(mounted)) = 1
         /\ DateElements(mounted)[1].text = "Invalid Date"
         /\ \A valid \in Dates \ {Unparseable} :
              WithoutDate(mounted)
                = WithoutDate(ExpenseCard(variant, timeZone,
                                          [props EXCEPT !.date = valid]))

C8_Witness ==
  /\ mounted.tag = "article"
  /\ props.date = Unparseable
  /\ props.onDelete # {}
  /\ Len(DeleteControls(mounted)) = 1

\* C9: a render alone never invokes onDelete; the number of invocations
\* equals the number of clicks on a delete control; and each invocation
\* uses the id and the callback of the most recent render.
C9_InvocationsFollowClicks ==
  /\ [](Len(calls) = deleteClicks)
  /\ [][/\ deleteClicks' = deleteClicks => calls' = calls
        /\ deleteClicks' # deleteClicks =>
             /\ props.onDelete # {}
             /\ calls' = Append(calls, LatestCall)]_vars

C9_Witness ==
  /\ Len(calls) = 2
  /\ deleteClicks = 2
  /\ calls[1].id # calls[2].id
  /\ calls[1].cb # calls[2].cb

\* C10: in both source variants the text of the rendered card is exactly
\* the badge text (when shown), the formatted date, the description, the
\* formatted amount and the delete glyph (when onDelete is supplied).
C10_OnlyTheFiveTexts ==
  mounted # NotMounted =>
    TextContent(mounted)
      = (IF props.showCategory # {FALSE} THEN <<props.category>> ELSE <<>>)
          \o <<formattedDateOf(props.date, timeZone), props.description,
               formattedAmountOf(props.amount)>>
          \o (IF props.onDelete # {} THEN <<DeleteGlyph(variant)>> ELSE <<>>)

====
